---- MODULE Spec2Model ----
(***************************************************************************)
(* TinyTuya API server (src/server/server.py): the UDP discovery           *)
(* listeners, the device registry, the retry resolver of the main thread   *)
(* and the HTTP command gateway, as a state machine.                       *)
(*                                                                         *)
(* Python values are modelled as follows: a dict is a TLA+ function (a     *)
(* record when its keys are field names), a list is a sequence, the value  *)
(* False returned by getDeviceIdByName is the token PyFalse, which no id   *)
(* or name equals, and strings are strings.                                *)
(***************************************************************************)
EXTENDS Integers, Sequences, FiniteSets, TLC

VARIABLES
    tuyadevices,    \* Credential Store: list of records (server.py:122,239)
    devicefile,     \* contents of DEVICEFILE on disk (server.py:75,212-223)
    cloudconfig,    \* CloudConfig dict (server.py:127,240)
    deviceslist,    \* Registry: dict id -> entry (server.py:123)
    newdevices,     \* list of ids discovered without name and key (server.py:124)
    retrydevices,   \* PendingResolution: dict id -> remaining budget (server.py:125)
    retrytimer,     \* seconds left until the deadline retrytimer - time.time(), 0 when passed
    lpc,            \* per listener thread: the statement of tuyalisten it is at
    lres,           \* per listener thread: its local variable result
    timers,         \* the threading.Timer objects of /delayoff that have not fired
    running,        \* the flag running (server.py:121,670)
    apc,            \* the api thread: the statement of api it is at
    mpc,            \* the main thread: the statement of the retry loop or the shutdown it is at
    creq,           \* the /cloudconfig request in progress: its parameters and the fields assigned
    miter,          \* the main thread: the iterator of the loop over retrydevices (server.py:662)
    since,          \* history: seconds since a normal pass last called tuyaCloudRefresh, up to RETRYTIME
    passes,         \* history: executed resolver passes since the id entered retrydevices
    last            \* history: the last operation executed and what it returned

vars == <<tuyadevices, devicefile, cloudconfig, deviceslist, newdevices,
          retrydevices, retrytimer, lpc, lres, timers, running, apc, mpc, creq,
          miter, since, passes, last>>

\* The positions of the main thread, the api thread and a /cloudconfig request.
ctl == <<running, apc, mpc, creq>>

threads == <<lpc, lres, ctl>>

-----------------------------------------------------------------------------
(* Program constants *)

RETRYTIME == 30
RETRYCOUNT == 5

(* Input domains of the model *)

Ips == {"10.0.0.5", "10.0.0.6"}
GwIds == {"d1"}
WILDCARD == "*"

\* The three tuyalisten threads (lines 605-607).
Ports == {"UDPPORT", "UDPPORTS", "UDPPORTAPP"}

\* Strings for which int(delay) succeeds.
Numerals == {"1", "5", "10"}

\* Bound of the model: /delayoff timers pending at a time.
MaxTimers == 1

\* Records the Credential Store can hold (devices.json or the Cloud Client's list).
RecPlug1 == [id |-> "d1", name |-> "Plug1", key |-> "K1", mac |-> "M1"]
RecLamp == [id |-> "d2", name |-> "Lamp", key |-> "K3"]
RecNameless == [id |-> "d1", name |-> "", key |-> "K2"]

CloudLists == {<<RecLamp, RecPlug1>>, <<RecNameless>>}
LocalLists == {<< >>, <<RecLamp, RecPlug1>>}

\* The error value the Cloud Client reports in cloud.error.
CloudError == [Error |-> "Error from Tuya Cloud"]

EmptyConfig == [apiKey |-> "", apiSecret |-> "", apiRegion |-> "", apiDeviceID |-> ""]
FullConfig == [apiKey |-> "k", apiSecret |-> "s", apiRegion |-> "r", apiDeviceID |-> "d"]

\* The part of a /cloudconfig/ path after the prefix, split at "/".
CfgPaths == {<<"k", "s", "r", "d">>, <<"", "s", "r", "d">>, <<"k", "s", "r">>,
             <<"k", "s", "r", "d", "x">>}

\* UDP datagrams: the sender address and the decoded payload, which is not
\* JSON (Garbage), a JSON object with an ip and no gwId (NoId), or a JSON
\* object with ip, gwId and version.
Garbage == [junk |-> TRUE]
NoId == [ip |-> "10.0.0.6"]
Payloads == {Garbage} \cup {[ip |-> i, gwId |-> g, version |-> "3.3"] : i \in Ips, g \in GwIds}
Datagrams == ({[addr |-> a, payload |-> p] : a \in Ips, p \in Payloads}
               \ {d \in [addr : Ips, payload : Payloads \ {Garbage}] : d.addr # d.payload.ip})
             \cup {[addr |-> "10.0.0.5", payload |-> NoId]}

-----------------------------------------------------------------------------
(* Helpful functions *)

\* tuyaLookup: (name, key, mac) of the first record with this id.
RECURSIVE LookupFrom(_, _, _)
LookupFrom(devs, deviceid, k) ==
    IF k > Len(devs) THEN <<"", "", "">>
    ELSE IF devs[k].id = deviceid
         THEN IF "mac" \in DOMAIN devs[k]
              THEN <<devs[k].name, devs[k].key, devs[k].mac>>
              ELSE <<devs[k].name, devs[k].key, "">>
         ELSE LookupFrom(devs, deviceid, k + 1)

tuyaLookup(devs, deviceid) == LookupFrom(devs, deviceid, 1)

HasRecord(devs, deviceid) == \E k \in 1..Len(devs) : devs[k].id = deviceid

appenddeviceOnly(newdevice, devices) ==
    [ret |-> newdevice.id \in DOMAIN devices, devices |-> (newdevice.id :> newdevice)]

\* appenddevice: the return value and the devices dict afterwards.
appenddevice(newdevice, devices) ==
    IF newdevice.id \in DOMAIN devices
    THEN [ret |-> TRUE, devices |-> devices]
    ELSE [ret |-> FALSE, devices |-> (newdevice.id :> newdevice) @@ devices]

\* tuyaSaveJson: the contents of DEVICEFILE afterwards (SAVEDEVICEFILE is True;
\* a failing write is swallowed by the code and is not modelled).
tuyaSaveJson(devs, file) == devs

ConfigMissingSkipsKey(cfg) ==
    cfg.apiSecret = "" \/ cfg.apiRegion = "" \/ cfg.apiDeviceID = ""

\* Line 244: the test of the four fields.
ConfigMissing(cfg) ==
    cfg.apiKey = "" \/ cfg.apiSecret = "" \/ cfg.apiRegion = "" \/ cfg.apiDeviceID = ""

\* tuyaCloudRefresh: the possible outcomes of one call, each with the return
\* value, the Credential Store and the file afterwards, and what the Cloud
\* Client did: it was not constructed ("unused"), it set cloud.error
\* ("error"), or getdevices() returned one of CloudLists ("devices").
tuyaCloudRefresh(cfg, devs, file) ==
    IF ConfigMissing(cfg)
    THEN {[ret |-> [Error |-> "Cloud API config missing"], devs |-> devs,
           file |-> file, cloud |-> "unused"]}
    ELSE {[ret |-> CloudError, devs |-> devs, file |-> file, cloud |-> "error"]}
         \cup {[ret |-> [devices |-> l], devs |-> l,
                file |-> tuyaSaveJson(l, file), cloud |-> "devices"] : l \in CloudLists}

-----------------------------------------------------------------------------
(* Discovery Listener: one datagram handled by tuyalisten *)

\* The payload is an announcement with an ip and a device id.
Parsed(dgram) == "ip" \in DOMAIN dgram.payload /\ "gwId" \in DOMAIN dgram.payload

\* Lines 287-301: the announcement and the device id parsed from a datagram.
\* ip is the sender address until line 298 assigns the ip of the payload, so
\* the except of line 300 uses the payload's ip when only gwId is missing.
Parse(dgram) ==
    IF "ip" \notin DOMAIN dgram.payload
    THEN [result |-> [ip |-> dgram.addr], gwId |-> ""]
    ELSE IF "gwId" \notin DOMAIN dgram.payload
         THEN [result |-> [ip |-> dgram.payload.ip], gwId |-> ""]
         ELSE [result |-> dgram.payload, gwId |-> dgram.payload.gwId]

\* Lines 303-312: the entry built from the announcement and the lookup.
Enrich(dgram, devs) ==
    LET p == Parse(dgram)
        l == tuyaLookup(devs, p.gwId)
    IN  [name |-> l[1], mac |-> l[3], key |-> l[2], id |-> p.gwId] @@ p.result

NeedsRetryAgain(ret, result, newdev) == result.name = "" /\ result.key = ""

\* Lines 315-317: the entry was added, it has neither name nor key, and its id
\* is not tracked in newdevices yet.
NeedsRetry(ret, result, newdev) ==
    /\ ~ret
    /\ result.name = "" /\ result.key = ""
    /\ ~(\E k \in 1..Len(newdev) : newdev[k] = result.id)

Listen(dgram) ==
    LET result == Enrich(dgram, tuyadevices)
        app == appenddevice(result, deviceslist)
        retry == NeedsRetry(app.ret, result, newdevices)
    IN  /\ deviceslist' = app.devices
        /\ retrydevices' = IF retry THEN (result.id :> RETRYCOUNT) @@ retrydevices
                           ELSE retrydevices
        /\ newdevices' = IF retry THEN Append(newdevices, result.id) ELSE newdevices
        /\ passes' = IF retry THEN (result.id :> 0) @@ passes ELSE passes
        /\ last' = [op |-> "listen", id |-> result.id, ip |-> result.ip,
                    addr |-> dgram.addr, parsed |-> Parsed(dgram)]
        /\ UNCHANGED <<miter, since, threads, tuyadevices, devicefile, cloudconfig, retrytimer, timers>>

-----------------------------------------------------------------------------
(* Discovery Listener, statement by statement: the threads share deviceslist,
   newdevices and retrydevices without a lock, so another thread can run
   between any two of these steps. *)

WhileTrue == "recv"

\* Line 280: the test of the while loop, taken together with the statement
\* that ends an iteration.
WhileRunning == IF running THEN "recv" ELSE "exit"

\* Lines 282-312: receive a datagram and build result from it and the lookup.
LRecv(p, dgram) ==
    /\ lpc[p] = "recv"
    /\ lres' = [lres EXCEPT ![p] = Enrich(dgram, tuyadevices)]
    /\ lpc' = [lpc EXCEPT ![p] = "check"]
    /\ UNCHANGED <<miter, since, ctl, tuyadevices, devicefile, cloudconfig, deviceslist, newdevices,
                   retrydevices, retrytimer, timers, passes, last>>

\* Lines 146-147: the membership test of appenddevice.
LCheck(p) ==
    /\ lpc[p] = "check"
    /\ lpc' = [lpc EXCEPT ![p] = IF lres[p].id \in DOMAIN deviceslist
                                 THEN WhileRunning ELSE "insert"]
    /\ UNCHANGED <<miter, since, ctl, tuyadevices, devicefile, cloudconfig, deviceslist, newdevices,
                   retrydevices, retrytimer, lres, timers, passes, last>>

\* Line 148: the store of appenddevice.
LInsert(p) ==
    /\ lpc[p] = "insert"
    /\ deviceslist' = (lres[p].id :> lres[p]) @@ deviceslist
    /\ lpc' = [lpc EXCEPT ![p] = "test"]
    /\ UNCHANGED <<miter, since, ctl, tuyadevices, devicefile, cloudconfig, newdevices,
                   retrydevices, retrytimer, lres, timers, passes, last>>

\* Line 317: the test that guards the registration for a retry.
LTest(p) ==
    /\ lpc[p] = "test"
    /\ lpc' = [lpc EXCEPT ![p] =
                  IF lres[p].name = "" /\ lres[p].key = ""
                     /\ ~(\E k \in 1..Len(newdevices) : newdevices[k] = lres[p].id)
                  THEN "retry" ELSE WhileRunning]
    /\ UNCHANGED <<miter, since, ctl, tuyadevices, devicefile, cloudconfig, deviceslist, newdevices,
                   retrydevices, retrytimer, lres, timers, passes, last>>

\* Line 319: retrydevices[result["id"]] = RETRYCOUNT.
LRetry(p) ==
    /\ lpc[p] = "retry"
    /\ retrydevices' = (lres[p].id :> RETRYCOUNT) @@ retrydevices
    /\ passes' = (lres[p].id :> 0) @@ passes
    /\ lpc' = [lpc EXCEPT ![p] = "append"]
    /\ UNCHANGED <<miter, since, ctl, tuyadevices, devicefile, cloudconfig, deviceslist, newdevices,
                   retrytimer, lres, timers, last>>

\* Line 320: newdevices.append(result["id"]).
LAppend(p) ==
    /\ lpc[p] = "append"
    /\ newdevices' = Append(newdevices, lres[p].id)
    /\ lpc' = [lpc EXCEPT ![p] = WhileRunning]
    /\ UNCHANGED <<miter, since, ctl, tuyadevices, devicefile, cloudconfig, deviceslist,
                   retrydevices, retrytimer, lres, timers, passes, last>>

\* Lines 282-286: recvfrom gives up after the 5 seconds of settimeout
\* (socket.timeout is an Exception) and the loop continues with its test.
LTimeout(p) ==
    /\ lpc[p] = "recv"
    /\ lpc' = [lpc EXCEPT ![p] = WhileRunning]
    /\ UNCHANGED <<miter, since, ctl, tuyadevices, devicefile, cloudconfig, deviceslist, newdevices,
                   retrydevices, retrytimer, lres, timers, passes, last>>

-----------------------------------------------------------------------------
(* Retry Resolver: one iteration of the main loop that executes a pass *)

Resolves(devs, devid) ==
    LET l == tuyaLookup(devs, devid) IN l[1] # "" \/ l[2] # ""

\* Lines 642-658: the scan over newdevices.
Resolved(entry, devs) ==
    LET l == tuyaLookup(devs, entry.id)
    IN  [entry EXCEPT !.name = l[1], !.key = l[2], !.mac = l[3]]

InList(list, x) == \E k \in 1..Len(list) : list[k] = x

Restrict(f, S) == [x \in S |-> f[x]]

FoundPending(newdev, devs) ==
    {newdev[k] : k \in {j \in 1..Len(newdev) :
                           Resolves(devs, newdev[j]) /\ newdev[j] \in DOMAIN retrydevices}}

\* Lines 642-654: the ids of newdevices whose lookup gives a name or a key.
Found(newdev, devs) == {newdev[k] : k \in {j \in 1..Len(newdev) : Resolves(devs, newdev[j])}}

ScannedNothing(retry, found) == retry

\* Lines 655-656: the scan deletes the found ids from retrydevices.
Scanned(retry, found) == Restrict(retry, DOMAIN retry \ found)

CountdownTwice(retry) == [d \in DOMAIN retry |-> retry[d] - 2]

\* Lines 662-663: every entry left, the wildcard included, is decremented.
Countdown(retry) == [d \in DOMAIN retry |-> retry[d] - 1]

ExpiredLate(retry) == {d \in DOMAIN retry : retry[d] < 0}

\* Lines 664-667: the entries whose budget is used up are deleted.
Expired(retry) == {d \in DOMAIN retry : retry[d] < 1}

RetryPass(ref) ==
    LET forced == WILDCARD \in DOMAIN retrydevices
        found == Found(newdevices, ref.devs)
        counted == Countdown(Scanned(retrydevices, found))
        kept == DOMAIN counted \ Expired(counted)
    IN  /\ retrytimer <= 0 \/ forced
        /\ DOMAIN retrydevices # {}
        \* a scan that finds an id missing from deviceslist raises KeyError
        /\ found \subseteq DOMAIN deviceslist
        /\ tuyadevices' = ref.devs
        /\ devicefile' = ref.file
        /\ retrytimer' = IF forced THEN retrytimer ELSE RETRYTIME
        /\ deviceslist' = [d \in DOMAIN deviceslist |->
                              IF d \in found THEN Resolved(deviceslist[d], ref.devs)
                              ELSE deviceslist[d]]
        /\ newdevices' = SelectSeq(newdevices, LAMBDA d : d \notin found)
        /\ retrydevices' = Restrict(counted, kept)
        /\ passes' = [d \in kept |-> IF d \in DOMAIN passes THEN passes[d] + 1 ELSE 1]
        /\ last' = [op |-> "pass", forced |-> forced, bridge |-> ref.bridge,
                    ret |-> ref.ret, cloud |-> ref.cloud, config |-> cloudconfig,
                    found |-> found, pending |-> retrydevices]
        /\ since' = IF forced THEN since ELSE 0
        /\ UNCHANGED <<miter, threads, cloudconfig, timers>>

\* Wall-clock time passing (time.sleep(2) of the loop, or any other delay).
TimeSteps == {RETRYTIME}

Elapse(dt) ==
    /\ retrytimer > 0
    /\ retrytimer' = IF retrytimer > dt THEN retrytimer - dt ELSE 0
    /\ since' = IF since + dt < RETRYTIME THEN since + dt ELSE RETRYTIME
    /\ UNCHANGED <<miter, threads, tuyadevices, devicefile, cloudconfig, deviceslist, newdevices,
                   retrydevices, timers, passes, last>>

-----------------------------------------------------------------------------
(* Retry Resolver, in the three parts of a pass: other threads can run between
   them. *)

\* Lines 634-639: the gate; a pass that was not forced refreshes the store
\* from the cloud and sets the timer.
MGate ==
    LET forced == WILDCARD \in DOMAIN retrydevices
    IN  /\ mpc = "top"
        /\ retrytimer <= 0 \/ forced
        /\ DOMAIN retrydevices # {}
        /\ \E ref \in IF forced
                       THEN {[devs |-> tuyadevices, file |-> devicefile]}
                       ELSE tuyaCloudRefresh(cloudconfig, tuyadevices, devicefile) :
              /\ tuyadevices' = ref.devs
              /\ devicefile' = ref.file
        /\ retrytimer' = IF forced THEN retrytimer ELSE RETRYTIME
        /\ mpc' = "scan"
        /\ since' = IF forced THEN since ELSE 0
        /\ UNCHANGED <<miter, lpc, lres, running, apc, creq, cloudconfig, deviceslist, newdevices,
                       retrydevices, timers, passes, last>>

\* Lines 640-658: the scan over newdevices.
MScan ==
    LET found == Found(newdevices, tuyadevices)
    IN  /\ mpc = "scan"
        /\ found \subseteq DOMAIN deviceslist
        /\ deviceslist' = [d \in DOMAIN deviceslist |->
                              IF d \in found THEN Resolved(deviceslist[d], tuyadevices)
                              ELSE deviceslist[d]]
        /\ newdevices' = SelectSeq(newdevices, LAMBDA d : d \notin found)
        /\ retrydevices' = Scanned(retrydevices, found)
        /\ mpc' = "count"
        /\ UNCHANGED <<miter, since, lpc, lres, running, apc, creq, tuyadevices, devicefile, cloudconfig,
                       retrytimer, timers, passes, last>>

\* Lines 660-667: every key retrydevices has now is decremented, and deleted
\* when its budget is used up.
MCount ==
    LET counted == Countdown(retrydevices)
        kept == DOMAIN counted \ Expired(counted)
    IN  /\ mpc = "count"
        /\ retrydevices' = Restrict(counted, kept)
        /\ passes' = [d \in kept |-> IF d \in DOMAIN passes THEN passes[d] + 1 ELSE 1]
        /\ mpc' = "top"
        /\ UNCHANGED <<miter, since, lpc, lres, running, apc, creq, tuyadevices, devicefile, cloudconfig,
                       deviceslist, newdevices, retrytimer, timers, last>>

-----------------------------------------------------------------------------
(* The decrement loop of a pass, iteration by iteration: "for devid in
   retrydevices" holds an iterator of the dict that other threads assign to. *)

\* Lines 661-662: the iterator is created; it records the size of the dict.
\* The order in which it gives the keys is not modelled.
MIterBegin ==
    /\ mpc = "count"
    /\ miter' = [todo |-> DOMAIN retrydevices, seen |-> {},
                 used |-> Cardinality(DOMAIN retrydevices), expired |-> {}]
    /\ mpc' = "iter"
    /\ UNCHANGED <<since, lpc, lres, running, apc, creq, tuyadevices, devicefile,
                   cloudconfig, deviceslist, newdevices, retrydevices, retrytimer, timers,
                   passes, last>>

\* Lines 662-665: the iterator is asked for the next key.  When the size of
\* the dict differs from the recorded one it raises RuntimeError ("dictionary
\* changed size during iteration"), which the except of line 669 does not
\* catch: the main thread ends.  Otherwise the loop ends or the key's budget
\* is decremented and the key noted when the budget is used up.
MIterNext ==
    /\ mpc = "iter"
    /\ IF Cardinality(DOMAIN retrydevices) # miter.used
       THEN /\ mpc' = "dead"
            /\ miter' = [todo |-> {}, seen |-> {}, used |-> 0, expired |-> {}]
            /\ UNCHANGED retrydevices
       ELSE IF miter.todo = {}
            THEN /\ mpc' = "expire"
                 /\ UNCHANGED <<miter, retrydevices>>
            ELSE \E d \in miter.todo :
                    /\ retrydevices' = [retrydevices EXCEPT ![d] = @ - 1]
                    /\ miter' = [miter EXCEPT
                                    !.todo = @ \ {d},
                                    !.seen = @ \cup {d},
                                    !.expired = IF retrydevices[d] - 1 < 1
                                                THEN @ \cup {d} ELSE @]
                    /\ mpc' = "iter"
    /\ UNCHANGED <<since, lpc, lres, running, apc, creq, tuyadevices, devicefile,
                   cloudconfig, deviceslist, newdevices, retrytimer, timers, passes, last>>

\* Lines 666-667: the keys noted as expired are deleted.
MExpire ==
    LET kept == DOMAIN retrydevices \ miter.expired
    IN  /\ mpc = "expire"
        /\ retrydevices' = Restrict(retrydevices, kept)
        /\ passes' = [d \in kept |->
                         IF d \in miter.seen
                         THEN IF d \in DOMAIN passes THEN passes[d] + 1 ELSE 1
                         ELSE IF d \in DOMAIN passes THEN passes[d] ELSE 0]
        /\ miter' = [todo |-> {}, seen |-> {}, used |-> 0, expired |-> {}]
        /\ mpc' = "top"
        /\ UNCHANGED <<since, lpc, lres, running, apc, creq, tuyadevices, devicefile,
                       cloudconfig, deviceslist, newdevices, retrytimer, timers, last>>

-----------------------------------------------------------------------------
(* Shutdown: the main thread clears running and wakes the api thread *)

\* Lines 669-670: KeyboardInterrupt or SystemExit ends the retry loop.
Interrupt ==
    /\ mpc = "top"
    /\ running
    /\ running' = FALSE
    /\ mpc' = "stop"
    /\ UNCHANGED <<miter, since, lpc, lres, apc, creq, tuyadevices, devicefile, cloudconfig, deviceslist,
                   newdevices, retrydevices, retrytimer, timers, passes, last>>

\* Line 674: requests.get of /stop on the server's own port is sent.
SendStop ==
    /\ mpc = "stop"
    /\ mpc' = "wait"
    /\ UNCHANGED <<miter, since, lpc, lres, running, apc, creq, tuyadevices, devicefile, cloudconfig,
                   deviceslist, newdevices, retrydevices, retrytimer, timers, passes, last>>

\* Lines 595-596: handle_request accepts the request of some client, hands it
\* to a handler thread and returns; the loop tests running.
ApiAccept ==
    /\ apc = "accept"
    /\ apc' = IF running THEN "accept" ELSE "exit"
    /\ UNCHANGED <<miter, since, lpc, lres, running, mpc, creq, tuyadevices, devicefile, cloudconfig,
                   deviceslist, newdevices, retrydevices, retrytimer, timers, passes, last>>

\* Lines 595-596 for the stop request of the main thread, which gets its
\* answer (the fallback of do_GET).
ApiStop ==
    /\ apc = "accept"
    /\ mpc = "wait"
    /\ apc' = IF running THEN "accept" ELSE "exit"
    /\ mpc' = "done"
    /\ UNCHANGED <<miter, since, lpc, lres, running, creq, tuyadevices, devicefile, cloudconfig,
                   deviceslist, newdevices, retrydevices, retrytimer, timers, passes, last>>

\* The api thread left its loop for another request before the stop request
\* was accepted: the server socket is closed and requests.get raises.
StopRefused ==
    /\ apc = "exit"
    /\ mpc = "wait"
    /\ mpc' = "done"
    /\ UNCHANGED <<miter, since, lpc, lres, running, apc, creq, tuyadevices, devicefile, cloudconfig,
                   deviceslist, newdevices, retrydevices, retrytimer, timers, passes, last>>

-----------------------------------------------------------------------------
(* Command Gateway: /sync and /cloudconfig *)

ArmWithBudget(retry) == (WILDCARD :> RETRYCOUNT) @@ Restrict(retry, DOMAIN retry \ {WILDCARD})

ArmNothing(retry) == retry

\* Lines 547 and 561: retrydevices['*'] = 1.
Arm(retry) == (WILDCARD :> 1) @@ Restrict(retry, DOMAIN retry \ {WILDCARD})

GetSync ==
    \E ref \in tuyaCloudRefresh(cloudconfig, tuyadevices, devicefile) :
        /\ tuyadevices' = ref.devs
        /\ devicefile' = ref.file
        /\ retrytimer' = RETRYTIME
        /\ retrydevices' = Arm(retrydevices)
        /\ passes' = (WILDCARD :> 0) @@ passes
        /\ last' = [op |-> "sync", message |-> ref.ret, bridge |-> 1,
                    ret |-> ref.ret, cloud |-> ref.cloud, config |-> cloudconfig]
        /\ UNCHANGED <<miter, since, threads, cloudconfig, deviceslist, newdevices, timers>>

GetCloudConfig(cfg) ==
    IF Len(cfg) # 4
    THEN /\ last' = [op |-> "cloudconfig", nparams |-> Len(cfg),
                     message |-> [Error |-> "Syntax error in cloud config command URL."],
                     bridge |-> 0]
         /\ UNCHANGED <<miter, since, threads, tuyadevices, devicefile, cloudconfig, deviceslist, newdevices,
                        retrydevices, retrytimer, timers, passes>>
    ELSE LET newcfg == [apiKey |-> cfg[1], apiSecret |-> cfg[2], apiRegion |-> cfg[3],
                        apiDeviceID |-> cfg[4]]
         IN  \E ref \in tuyaCloudRefresh(newcfg, tuyadevices, devicefile) :
             /\ cloudconfig' = newcfg
             /\ tuyadevices' = ref.devs
             /\ devicefile' = ref.file
             /\ retrytimer' = RETRYTIME
             /\ retrydevices' = Arm(retrydevices)
             /\ passes' = (WILDCARD :> 0) @@ passes
             /\ last' = [op |-> "cloudconfig", nparams |-> Len(cfg),
                         message |-> ref.ret, bridge |-> 1,
                         ret |-> ref.ret, cloud |-> ref.cloud, config |-> newcfg]
             /\ UNCHANGED <<miter, since, threads, deviceslist, newdevices, timers>>

-----------------------------------------------------------------------------
(* /cloudconfig, statement by statement: the handler runs in a thread of its
   own (ThreadingMixIn) and assigns the four fields of the shared dict one
   after the other, so the main thread or another request can run between two
   assignments. *)

Fields == <<"apiKey", "apiSecret", "apiRegion", "apiDeviceID">>

\* Lines 549-555: the path has four parameters; cloudconfig['apiKey'] = cfg[0].
CfgFirst(cfg) ==
    /\ creq = [cfg |-> << >>, n |-> 0]
    /\ Len(cfg) = Len(Fields)
    /\ cloudconfig' = [cloudconfig EXCEPT !.apiKey = cfg[1]]
    /\ creq' = [cfg |-> cfg, n |-> 1]
    /\ UNCHANGED <<miter, since, lpc, lres, running, apc, mpc, tuyadevices, devicefile, deviceslist,
                   newdevices, retrydevices, retrytimer, timers, passes, last>>

\* Lines 556-558: the next of the remaining three assignments.
CfgAssign ==
    /\ creq.n >= 1
    /\ creq.n < Len(Fields)
    /\ cloudconfig' = [cloudconfig EXCEPT ![Fields[creq.n + 1]] = creq.cfg[creq.n + 1]]
    /\ creq' = [creq EXCEPT !.n = creq.n + 1]
    /\ UNCHANGED <<miter, since, lpc, lres, running, apc, mpc, tuyadevices, devicefile, deviceslist,
                   newdevices, retrydevices, retrytimer, timers, passes, last>>

\* Lines 559-561: the refresh, the timer and the wildcard.
CfgRefresh ==
    /\ creq.n = Len(Fields)
    /\ \E ref \in tuyaCloudRefresh(cloudconfig, tuyadevices, devicefile) :
          /\ tuyadevices' = ref.devs
          /\ devicefile' = ref.file
          /\ last' = [op |-> "cloudconfig", nparams |-> Len(creq.cfg),
                      message |-> ref.ret, bridge |-> 1,
                      ret |-> ref.ret, cloud |-> ref.cloud, config |-> cloudconfig]
    /\ retrytimer' = RETRYTIME
    /\ retrydevices' = Arm(retrydevices)
    /\ passes' = (WILDCARD :> 0) @@ passes
    /\ creq' = [cfg |-> << >>, n |-> 0]
    /\ UNCHANGED <<miter, since, lpc, lres, running, apc, mpc, cloudconfig, deviceslist, newdevices,
                   timers>>

-----------------------------------------------------------------------------
(* Command Gateway: /device and the control operations *)

\* The value False, which getDeviceIdByName returns when no name matches
\* (json.dumps writes it as false); it is no key of deviceslist.
PyFalse == "<False>"

\* The value None, which the Device Client returns for a command sent with
\* nowait=True.
None == [py |-> "None"]

\* The initial value of message in do_GET, a bare string.
BareError == [raw |-> "Error"]

\* urllib.parse.unquote on the tokens of the model.
unquote(name) == IF name = "Plug%31" THEN "Plug1" ELSE name

\* getDeviceIdByName: the id of the first entry with this name, else False.
\* The iteration order of deviceslist is not modelled: any match may be first.
getDeviceIdByName(name, devices) ==
    LET matches == {k \in DOMAIN devices : devices[k].name = unquote(name)}
    IN  IF matches = {} THEN {PyFalse} ELSE {devices[k].id : k \in matches}

\* "if(id not in deviceslist): id = getDeviceIdByName(id)"
ResolveId(id, devices) ==
    IF id \notin DOMAIN devices THEN getDeviceIdByName(id, devices) ELSE {id}

formatreturn(value) ==
    IF value = None THEN [status |-> "OK"]
    ELSE IF "py" \notin DOMAIN value THEN value
    ELSE [status |-> value]

NotFound(id) == [Error |-> "Device ID not found.", id |-> id]

\* The path after the route prefix, joined again from its segments.
RECURSIVE Join(_)
Join(tail) == IF Len(tail) = 1 THEN tail[1] ELSE tail[1] \o "/" \o Join(Tail(tail))

\* What the Device Client does when a command is sent.
DevOutcomes == {"ok", "raise"}

\* The body of the try blocks of the control operations: the session is
\* created by OutletDevice(...), set_version(float(entry["version"])) raises
\* when the entry has no version, the command returns or raises, and
\* d.close() is reached only when nothing was raised.
DeviceCall(entry, dev, value) ==
    IF "version" \notin DOMAIN entry
    THEN [raised |-> TRUE, opened |-> 1, closed |-> 0, sent |-> FALSE]
    ELSE IF dev = "raise"
         THEN [raised |-> TRUE, opened |-> 1, closed |-> 0, sent |-> TRUE]
         ELSE [raised |-> FALSE, opened |-> 1, closed |-> 1, sent |-> TRUE,
               message |-> formatreturn(value)]

NoCall == [opened |-> 0, closed |-> 0, sent |-> FALSE]

\* /turnoff/ and /turnon/ (lines 439-462 and 491-514), which differ in the
\* command and in the text of the syntax error.
Switch(cmd, tail, id, dev) ==
    LET syntax == [Error |-> "Invalid syntax in " \o cmd \o " command.",
                   url |-> "/" \o cmd \o "/" \o Join(tail)]
        message0 == IF Len(tail) > 2 THEN syntax ELSE BareError
    IN  IF id \in DOMAIN deviceslist
        THEN LET call == DeviceCall(deviceslist[id], dev, None)
             IN  IF call.raised
                 THEN [message |-> [Error |-> "Error sending command to device.", id |-> id],
                       id |-> id] @@ call
                 ELSE [id |-> id] @@ call
        ELSE IF id # ""
             THEN [message |-> NotFound(id), id |-> id] @@ NoCall
             ELSE [message |-> message0, id |-> id] @@ NoCall

\* The id the split of lines 440-446 leaves: "" when the split fails.
SwitchId(tail) == IF Len(tail) <= 2 THEN tail[1] ELSE ""

GetSwitch(cmd, tail, dev) ==
    /\ \E id \in ResolveId(SwitchId(tail), deviceslist) :
          last' = [op |-> cmd, tail |-> tail] @@ Switch(cmd, tail, id, dev)
    /\ UNCHANGED <<miter, since, threads, tuyadevices, devicefile, cloudconfig, deviceslist, newdevices,
                   retrydevices, retrytimer, passes, timers>>

\* /status/ (lines 520-543).
Status(id, dev) ==
    IF id \in DOMAIN deviceslist
    THEN LET response == IF HasRecord(tuyadevices, id)
                         THEN [dps |-> "state", dps_mapping |-> "[]"]
                         ELSE [dps |-> "state"]
             call == DeviceCall(deviceslist[id], dev, response)
         IN  IF call.raised
             THEN [message |-> [Error |-> "Error polling device.", id |-> id],
                   id |-> id] @@ call
             ELSE [id |-> id] @@ call
    ELSE [message |-> NotFound(id), id |-> id] @@ NoCall

GetStatus(tail, dev) ==
    /\ \E id \in ResolveId(Join(tail), deviceslist) :
          last' = [op |-> "status", tail |-> tail] @@ Status(id, dev)
    /\ UNCHANGED <<miter, since, threads, tuyadevices, devicefile, cloudconfig, deviceslist, newdevices,
                   retrydevices, retrytimer, passes, timers>>

\* /set/ (lines 385-420): the path must split into five parts; any exception
\* of the block gives the syntax error.  The conversion of the value and the
\* mapping of a code to a key do not touch the state and are left out.
SetValue(tail, id, dev) ==
    LET syntax == [Error |-> "Syntax error in set command URL.",
                   url |-> "/set/" \o Join(tail)]
    IN  IF Len(tail) # 3
        THEN [message |-> syntax, id |-> id] @@ NoCall
        ELSE IF id \in DOMAIN deviceslist
             THEN LET call == DeviceCall(deviceslist[id], dev, None)
                  IN  IF call.raised
                      THEN [message |-> syntax, id |-> id] @@ call
                      ELSE [id |-> id] @@ call
             ELSE [message |-> NotFound(id), id |-> id] @@ NoCall

GetSet(tail, dev) ==
    /\ \E id \in (IF Len(tail) = 3 THEN ResolveId(tail[1], deviceslist) ELSE {tail[1]}) :
          last' = [op |-> "set", tail |-> tail] @@ SetValue(tail, id, dev)
    /\ UNCHANGED <<miter, since, threads, tuyadevices, devicefile, cloudconfig, deviceslist, newdevices,
                   retrydevices, retrytimer, passes, timers>>

\* /delayoff/ (lines 463-490): the session is created in the request and
\* handed to a threading.Timer; delayoff (lines 328-330) runs when it fires.
DelayOff(tail, id) ==
    LET syntax == [Error |-> "Invalid syntax in delayoff command.",
                   url |-> "/delayoff/" \o Join(tail)]
        message0 == IF Len(tail) \notin {1, 3} THEN syntax ELSE BareError
        delay == IF Len(tail) = 3 THEN tail[3] ELSE "10"
    IN  IF id \in DOMAIN deviceslist
        THEN IF "version" \notin DOMAIN deviceslist[id] \/ delay \notin Numerals
             THEN [message |-> [Error |-> "Error sending command to device.", id |-> id],
                   id |-> id, opened |-> 1, closed |-> 0, sent |-> FALSE, timer |-> FALSE]
             ELSE [message |-> [OK |-> "Turning of in " \o delay \o " seconds.",
                                url |-> "/delayoff/" \o Join(tail)],
                   id |-> id, opened |-> 1, closed |-> 0, sent |-> FALSE, timer |-> TRUE]
        ELSE IF id # ""
             THEN [message |-> NotFound(id), id |-> id, timer |-> FALSE] @@ NoCall
             ELSE [message |-> message0, id |-> id, timer |-> FALSE] @@ NoCall

DelayOffId(tail) == IF Len(tail) \in {1, 3} THEN tail[1] ELSE ""

GetDelayOff(tail) ==
    /\ \E id \in ResolveId(DelayOffId(tail), deviceslist) :
          LET out == DelayOff(tail, id)
          IN  /\ out.timer => Len(timers) < MaxTimers
              /\ last' = [op |-> "delayoff", tail |-> tail] @@ out
              /\ timers' = IF out.timer THEN Append(timers, [id |-> id]) ELSE timers
    /\ UNCHANGED <<miter, since, threads, tuyadevices, devicefile, cloudconfig, deviceslist, newdevices,
                   retrydevices, retrytimer, passes>>

\* delayoff(d, sw) in the timer thread: turn_off, then close unless it raised.
TimerFire(dev) ==
    /\ timers # << >>
    /\ \E k \in 1..Len(timers) :
          /\ timers' = SubSeq(timers, 1, k - 1) \o SubSeq(timers, k + 1, Len(timers))
          /\ last' = [op |-> "timer", id |-> timers[k].id, sent |-> TRUE,
                      opened |-> 0, closed |-> IF dev = "raise" THEN 0 ELSE 1]
    /\ UNCHANGED <<miter, since, threads, tuyadevices, devicefile, cloudconfig, deviceslist, newdevices,
                   retrydevices, retrytimer, passes>>

\* /device/ (lines 421-438).
Device(id) ==
    IF id \in DOMAIN deviceslist
    THEN [message |-> deviceslist[id], id |-> id]
    ELSE LET l == tuyaLookup(tuyadevices, id)
         IN  IF l[1] # ""
             THEN [message |-> [name |-> l[1], mac |-> l[3], key |-> l[2], id |-> id],
                   id |-> id]
             ELSE [message |-> NotFound(id), id |-> id]

GetDevice(tail) ==
    /\ \E id \in ResolveId(Join(tail), deviceslist) :
          last' = [op |-> "device", tail |-> tail] @@ Device(id) @@ NoCall
    /\ UNCHANGED <<miter, since, threads, tuyadevices, devicefile, cloudconfig, deviceslist, newdevices,
                   retrydevices, retrytimer, passes, timers>>

-----------------------------------------------------------------------------
(* Command Gateway: the read-only queries and the fallback *)

\* The entry /offline gives for a record of the store.
OfflineEntry(d) ==
    IF "mac" \in DOMAIN d THEN [name |-> d.name, mac |-> d.mac] ELSE [name |-> d.name]

\* The loop of offlineDevices from record k on: a later record with the same
\* id overwrites the entry of an earlier one.
RECURSIVE OfflineFrom(_, _, _)
OfflineFrom(devs, devices, k) ==
    IF k > Len(devs) THEN << >>
    ELSE IF devs[k].id \in DOMAIN devices
         THEN OfflineFrom(devs, devices, k + 1)
         ELSE OfflineFrom(devs, devices, k + 1) @@ (devs[k].id :> OfflineEntry(devs[k]))

offlineDevicesAll(devs, devices) == OfflineFrom(devs, << >>, 1)

offlineDevices(devs, devices) == OfflineFrom(devs, devices, 1)

\* /offline (lines 562-563).
GetOffline ==
    /\ last' = [op |-> "offline", message |-> offlineDevices(tuyadevices, deviceslist)]
                @@ NoCall
    /\ UNCHANGED <<miter, since, threads, tuyadevices, devicefile, cloudconfig, deviceslist, newdevices,
                   retrydevices, retrytimer, passes, timers>>

\* /numdevices (lines 515-519).
GetNumDevices ==
    /\ last' = [op |-> "numdevices",
                message |-> [found |-> Cardinality(DOMAIN deviceslist),
                             registered |-> Len(tuyadevices)]] @@ NoCall
    /\ UNCHANGED <<miter, since, threads, tuyadevices, devicefile, cloudconfig, deviceslist, newdevices,
                   retrydevices, retrytimer, passes, timers>>

\* A path that matches no route (lines 564-583): get_static either finds a
\* file under web_root and the handler sends it and returns, or it finds none
\* and the handler sends message as it was initialised in line 362.
GetOther(asset) ==
    /\ last' = IF asset THEN [op |-> "static"]
               ELSE [op |-> "other", message |-> BareError] @@ NoCall
    /\ UNCHANGED <<miter, since, threads, tuyadevices, devicefile, cloudconfig, deviceslist, newdevices,
                   retrydevices, retrytimer, passes, timers>>

-----------------------------------------------------------------------------
(* The server *)

\* The main thread is not in the loop of line 662.
NoIterator == [todo |-> {}, seen |-> {}, used |-> 0, expired |-> {}]

\* No /cloudconfig request is between its assignments.
NoRequest == [cfg |-> << >>, n |-> 0]

Init ==
    /\ tuyadevices \in LocalLists
    /\ devicefile = tuyadevices
    /\ cloudconfig \in {EmptyConfig, FullConfig}
    /\ deviceslist = << >>
    /\ newdevices = << >>
    /\ retrydevices = << >>
    /\ retrytimer = 0
    /\ lpc = [p \in Ports |-> "recv"]
    /\ lres = [p \in Ports |-> [ip |-> ""]]
    /\ timers = << >>
    /\ running = TRUE
    /\ apc = "accept"
    /\ mpc = "top"
    /\ creq = NoRequest
    /\ miter = NoIterator
    /\ since = RETRYTIME
    /\ passes = << >>
    /\ last = [op |-> "start"]

PassRefreshPerId ==
    IF WILDCARD \in DOMAIN retrydevices
    THEN {[ret |-> [skipped |-> TRUE], devs |-> tuyadevices, file |-> devicefile,
           cloud |-> "unused", bridge |-> 0]}
    ELSE {[bridge |-> Cardinality(DOMAIN retrydevices)] @@ r :
             r \in tuyaCloudRefresh(cloudconfig, tuyadevices, devicefile)}

\* Lines 636-639: a pass refreshes from the cloud unless it was forced.
\* bridge counts the calls of tuyaCloudRefresh the pass makes.
PassRefresh ==
    IF WILDCARD \in DOMAIN retrydevices
    THEN {[ret |-> [skipped |-> TRUE], devs |-> tuyadevices, file |-> devicefile,
           cloud |-> "unused", bridge |-> 0]}
    ELSE {[bridge |-> 1] @@ r : r \in tuyaCloudRefresh(cloudconfig, tuyadevices, devicefile)}

Next ==
    \/ \E dgram \in Datagrams : Listen(dgram)
    \/ \E ref \in PassRefresh : RetryPass(ref)
    \/ \E dt \in TimeSteps : Elapse(dt)
    \/ GetSync
    \/ \E cfg \in CfgPaths : GetCloudConfig(cfg)

Spec == Init /\ [][Next]_vars

\* The listener threads interleaved statement by statement with each other and
\* with the resolver, for the announcements of one device.
RaceDatagrams == {d \in Datagrams : d.addr = "10.0.0.5" /\ Parsed(d)}

NextRace ==
    \/ \E p \in Ports, dgram \in RaceDatagrams : LRecv(p, dgram)
    \/ \E p \in Ports : LCheck(p)
    \/ \E p \in Ports : LInsert(p)
    \/ \E p \in Ports : LTest(p)
    \/ \E p \in Ports : LRetry(p)
    \/ \E p \in Ports : LAppend(p)
    \/ \E ref \in PassRefresh : RetryPass(ref)
    \/ \E dt \in TimeSteps : Elapse(dt)

InitRace == Init /\ tuyadevices = << >> /\ cloudconfig = FullConfig

SpecRace == InitRace /\ [][NextRace]_vars

\* The resolver pass in its three parts, interleaved with discoveries and
\* /sync requests.
ResolverStep == MGate \/ MScan \/ MCount \/ \E dt \in TimeSteps : Elapse(dt)

NextSync ==
    \/ \E dgram \in RaceDatagrams : Listen(dgram)
    \/ GetSync
    \/ MGate
    \/ MScan
    \/ MCount
    \/ \E dt \in TimeSteps : Elapse(dt)

InitSync == Init /\ tuyadevices = << >> /\ cloudconfig = FullConfig

SpecSync == InitSync /\ [][NextSync]_vars

\* Shutdown: the listener threads statement by statement, the api thread and
\* the main thread from the interrupt on.  The threads are scheduled fairly,
\* a receive ends with a datagram or with its timeout, and the stop request
\* reaches the server while it accepts.
ListenerStep(p) ==
    \/ \E dgram \in RaceDatagrams : LRecv(p, dgram)
    \/ LTimeout(p)
    \/ LCheck(p)
    \/ LInsert(p)
    \/ LTest(p)
    \/ LRetry(p)
    \/ LAppend(p)

NextStop ==
    \/ \E p \in Ports, dgram \in RaceDatagrams : LRecv(p, dgram)
    \/ \E p \in Ports : LTimeout(p)
    \/ \E p \in Ports : LCheck(p)
    \/ \E p \in Ports : LInsert(p)
    \/ \E p \in Ports : LTest(p)
    \/ \E p \in Ports : LRetry(p)
    \/ \E p \in Ports : LAppend(p)
    \/ Interrupt
    \/ SendStop
    \/ ApiAccept
    \/ ApiStop
    \/ StopRefused

InitStop == Init /\ tuyadevices = << >> /\ cloudconfig = EmptyConfig

SpecStop ==
    /\ InitStop
    /\ [][NextStop]_vars
    /\ \A p \in Ports : WF_vars(ListenerStep(p))
    /\ WF_vars(SendStop)
    /\ WF_vars(ApiStop)

\* A /cloudconfig request interleaved assignment by assignment with the
\* resolver and with /sync.
RaceCfgPaths == {<<"k2", "s2", "r2", "d2">>}

NextConfig ==
    \/ \E cfg \in RaceCfgPaths : CfgFirst(cfg)
    \/ CfgAssign
    \/ CfgRefresh
    \/ \E dgram \in RaceDatagrams : Listen(dgram)
    \/ \E ref \in PassRefresh : RetryPass(ref)
    \/ \E dt \in TimeSteps : Elapse(dt)
    \/ GetSync

InitConfig == Init /\ tuyadevices = << >> /\ cloudconfig = FullConfig

SpecConfig == InitConfig /\ [][NextConfig]_vars

\* The gateway: the requests of the control operations and of /device against
\* the registry one address builds, with the resolver and /sync running.
GatewayDatagrams == {d \in Datagrams : d.addr = "10.0.0.5" /\ d.payload # NoId}

Tails == {<<"d1">>, <<"Plug1">>, <<"Plug%31">>, <<"">>, <<"d2">>, <<"unknownid">>,
          <<"d1", "1">>, <<"d1", "1", "5">>, <<"a", "b", "c">>, <<"a", "b", "c", "d">>}

NextGateway ==
    \/ \E dgram \in GatewayDatagrams : Listen(dgram)
    \/ \E ref \in PassRefresh : RetryPass(ref)
    \/ GetSync
    \/ \E cmd \in {"turnoff", "turnon"}, tail \in Tails, dev \in DevOutcomes :
          GetSwitch(cmd, tail, dev)
    \/ \E tail \in Tails, dev \in DevOutcomes : GetStatus(tail, dev)
    \/ \E tail \in Tails, dev \in DevOutcomes : GetSet(tail, dev)
    \/ \E tail \in Tails : GetDelayOff(tail)
    \/ \E dev \in DevOutcomes : TimerFire(dev)
    \/ \E tail \in Tails : GetDevice(tail)
    \/ GetOffline
    \/ GetNumDevices
    \/ \E asset \in BOOLEAN : GetOther(asset)

InitGateway == Init /\ cloudconfig = FullConfig

SpecGateway == InitGateway /\ [][NextGateway]_vars

\* The resolver with its decrement loop taken iteration by iteration, while
\* listeners register ids and /sync and /cloudconfig arm the wildcard.
NextIter ==
    \/ \E dgram \in GatewayDatagrams : Listen(dgram)
    \/ GetSync
    \/ \E cfg \in CfgPaths : GetCloudConfig(cfg)
    \/ MGate
    \/ MScan
    \/ MIterBegin
    \/ MIterNext
    \/ MExpire
    \/ \E dt \in TimeSteps : Elapse(dt)

InitIter == Init /\ tuyadevices = << >> /\ cloudconfig = FullConfig

SpecIter == InitIter /\ [][NextIter]_vars

\* The resolver with the clock advancing in steps shorter than the retry
\* interval, for up to two pending ids.
TimeStepsFine == {RETRYTIME \div 3, RETRYTIME}

NextTimer ==
    \/ \E dgram \in GatewayDatagrams : Listen(dgram)
    \/ \E ref \in PassRefresh : RetryPass(ref)
    \/ \E dt \in TimeStepsFine : Elapse(dt)
    \/ GetSync

InitTimer == Init /\ cloudconfig = FullConfig

SpecTimer == InitTimer /\ [][NextTimer]_vars

-----------------------------------------------------------------------------
(* Claims *)

RealPending(retry) == DOMAIN retry \ {WILDCARD}

\* C1: an id inserted into retrydevices with budget RETRYCOUNT is removed after
\* at most RETRYCOUNT executed passes, whatever happens in between (while it is
\* there, fewer than RETRYCOUNT passes were executed since it entered), and it
\* leaves only in a pass, either because the lookup of that pass gave a name
\* or a key (Resolved) or because its budget reached zero (Expired).
C1_RemovedWithinBudget ==
    /\ [](\A d \in RealPending(retrydevices) :
             passes[d] < RETRYCOUNT /\ passes[d] + retrydevices[d] = RETRYCOUNT)
    /\ [][\A d \in RealPending(retrydevices) :
             d \notin DOMAIN retrydevices' =>
                /\ last'.op = "pass"
                /\ \/ Resolves(tuyadevices', d)
                   \/ passes[d] = RETRYCOUNT - 1 /\ retrydevices[d] = 1]_vars

\* C1 witness: a pass has just expired an id (it is still tracked in newdevices
\* and no longer pending) while the other id left earlier.
C1_Witness ==
    /\ last.op = "pass"
    /\ retrydevices = << >>
    /\ Len(newdevices) = 1
    /\ DOMAIN deviceslist = {"", "d1"}


\* C2: while the wildcard is in retrydevices a pass can run whatever the retry
\* timer says; the wildcard holds budget 1 and is gone after the first pass
\* that runs while it is present, and that pass calls tuyaCloudRefresh at most
\* once.
C2_WildcardOneShot ==
    /\ WILDCARD \in DOMAIN retrydevices =>
          /\ retrydevices[WILDCARD] = 1
          /\ ENABLED (\E ref \in PassRefresh : RetryPass(ref))
    /\ last.op = "pass" =>
          /\ WILDCARD \notin DOMAIN retrydevices
          /\ (last.forced => last.bridge <= 1)

\* C2 witness: a forced pass has run before the retry interval was over.
C2_Witness ==
    /\ last.op = "pass" /\ last.forced
    /\ retrytimer > 0
    /\ WILDCARD \notin DOMAIN retrydevices

\* C3: after a listener has processed an announcement, first or repeated, of an
\* id with a Credential Store record, the Registry entry's name, key and mac
\* are those of the record at that time.
C3_EntryMatchesStore ==
    last.op = "listen" /\ HasRecord(tuyadevices, last.id) =>
        LET l == tuyaLookup(tuyadevices, last.id)
            e == deviceslist[last.id]
        IN  e.name = l[1] /\ e.key = l[2] /\ e.mac = l[3]

\* C7: after a listener has processed an announcement of an id, the Registry
\* entry's ip is the ip of that (latest) announcement.
C7_LastIpWins ==
    last.op = "listen" => deviceslist[last.id].ip = last.ip

AllFourSet(cfg) ==
    cfg.apiKey # "" /\ cfg.apiSecret # "" /\ cfg.apiRegion # "" /\ cfg.apiDeviceID # ""

BridgeCalled(l) == l.op \in {"pass", "sync", "cloudconfig"} /\ l.bridge = 1

\* C8: tuyaCloudRefresh replaces the Credential Store (and the file) only when
\* the four cloudconfig fields are non-empty and the Cloud Client reports no
\* error; with a field empty it returns the config-missing error and does not
\* construct the Cloud Client; on a Cloud Client error it returns that error;
\* in both failure cases store and file are as before.
C8_BridgeContract ==
    /\ [](BridgeCalled(last) =>
            /\ (~AllFourSet(cloudconfig) =>
                  (last.ret = [Error |-> "Cloud API config missing"]
                   /\ last.cloud = "unused"))
            /\ (AllFourSet(cloudconfig) => last.cloud \in {"error", "devices"})
            /\ (last.cloud = "error" => last.ret = CloudError)
            /\ (last.cloud = "devices" =>
                  (last.ret = [devices |-> tuyadevices] /\ devicefile = tuyadevices)))
    /\ [][(tuyadevices' # tuyadevices \/ devicefile' # devicefile) =>
             (BridgeCalled(last') /\ AllFourSet(cloudconfig')
              /\ last'.cloud = "devices")]_vars
    /\ [][(BridgeCalled(last') /\ last'.cloud # "devices") =>
             (tuyadevices' = tuyadevices /\ devicefile' = devicefile)]_vars

\* C8 witness: after a call that replaced and saved the store, a call ended in
\* a Cloud Client error and left both as they were.
C8_Witness ==
    /\ BridgeCalled(last) /\ last.cloud = "error"
    /\ tuyadevices = <<RecNameless>>
    /\ devicefile = <<RecNameless>>

\* C9: /sync and /cloudconfig with four parameters call tuyaCloudRefresh once
\* and leave the wildcard armed, whatever the call returned; /cloudconfig with
\* another number of parameters calls nothing and changes neither cloudconfig
\* nor retrydevices.
C9_SyncArms ==
    /\ []((last.op = "sync" \/ (last.op = "cloudconfig" /\ last.nparams = 4)) =>
             (/\ last.bridge = 1
              /\ WILDCARD \in DOMAIN retrydevices
              /\ retrydevices[WILDCARD] = 1))
    /\ []((last.op = "cloudconfig" /\ last.nparams # 4) => last.bridge = 0)
    /\ [][(last'.op = "cloudconfig" /\ last'.nparams # 4) =>
             (/\ cloudconfig' = cloudconfig
              /\ retrydevices' = retrydevices
              /\ tuyadevices' = tuyadevices)]_vars

\* C9 witness: a /cloudconfig with four parameters armed the wildcard although
\* the call returned an error.
C9_Witness ==
    /\ last.op = "cloudconfig" /\ last.nparams = 4
    /\ "Error" \in DOMAIN last.message
    /\ WILDCARD \in DOMAIN retrydevices

ControlOps == {"status", "set", "turnon", "turnoff", "delayoff"}

\* C4: a control request (/status, /set, /turnon, /turnoff) that opened a
\* Device Client session has closed it when it responds, also when the call
\* or its preparation raised.
C4_SessionClosed ==
    last.op \in {"status", "set", "turnon", "turnoff"} => last.closed = last.opened

\* The device token of a well-formed control request.
WellFormed(l) ==
    \/ l.op \in {"turnon", "turnoff"} /\ Len(l.tail) \in {1, 2}
    \/ l.op = "delayoff" /\ Len(l.tail) \in {1, 3}
    \/ l.op = "set" /\ Len(l.tail) = 3
    \/ l.op = "status"

Token(l) == IF l.op = "status" THEN Join(l.tail) ELSE l.tail[1]

NamedBy(token) == {k \in DOMAIN deviceslist : deviceslist[k].name = unquote(token)}

\* C6: a control request whose token is neither an id nor a name of the
\* Registry answers {"Error": "Device ID not found.", "id": <token>} and opens
\* no session.
C6_NotFoundEchoesToken ==
    (/\ last.op \in ControlOps
     /\ WellFormed(last)
     /\ Token(last) \notin DOMAIN deviceslist
     /\ NamedBy(Token(last)) = {})
    => (last.message = NotFound(Token(last)) /\ last.opened = 0)

\* C10: /device/{token} answers the Registry entry when the token is an id or
\* a name of the Registry, else the {name, key, mac, id} of the Credential
\* Store record with that id, and the not-found error only when there is
\* neither.
C10_DeviceLookup ==
    last.op = "device" =>
        LET token == Join(last.tail)
            l == tuyaLookup(tuyadevices, token)
        IN  IF token \in DOMAIN deviceslist
            THEN last.message = deviceslist[token]
            ELSE IF NamedBy(token) # {}
                 THEN \E k \in NamedBy(token) : last.message = deviceslist[k]
                 ELSE IF HasRecord(tuyadevices, token)
                      THEN last.message = [name |-> l[1], mac |-> l[3], key |-> l[2],
                                           id |-> token]
                      ELSE "Error" \in DOMAIN last.message

HasCredentials(entry) == entry.name # "" \/ entry.key # ""

\* C5: the listener's "insert if not in the Registry, then register for a
\* retry" is atomic with respect to the other listeners and the resolver: no
\* step replaces an entry that has a name or a key by one with neither, and no
\* step puts an id whose entry has a name or a key back into retrydevices.
C5_InsertIsAtomic ==
    [][\A d \in DOMAIN deviceslist :
          HasCredentials(deviceslist[d]) =>
             /\ HasCredentials(deviceslist'[d])
             /\ d \notin DOMAIN retrydevices => d \notin DOMAIN retrydevices']_vars

\* A /turnon, /turnoff or /delayoff request with the wrong number of segments
\* after the device token.
Malformed(l) ==
    \/ l.op \in {"turnon", "turnoff"} /\ Len(l.tail) > 2
    \/ l.op = "delayoff" /\ Len(l.tail) \notin {1, 3}

MalformedError(l) ==
    [Error |-> "Invalid syntax in " \o l.op \o " command.",
     url |-> "/" \o l.op \o "/" \o Join(l.tail)]

\* C11: a /turnon, /turnoff or /delayoff request with the wrong number of
\* segments answers the malformed-request error that carries the path, opens no
\* Device Client session and sends or schedules no command, whatever the
\* Registry holds.
C11_MalformedRejected ==
    (last.op \in {"turnon", "turnoff", "delayoff"} /\ Malformed(last))
    => (/\ last.message = MalformedError(last)
        /\ last.opened = 0
        /\ ~last.sent
        /\ ("timer" \in DOMAIN last => ~last.timer))

\* The device-communication error object for the device with this id.
IsCommError(message, id) ==
    /\ DOMAIN message = {"Error", "id"}
    /\ message.id = id

\* C12: when the Device Client call of /status, /set, /turnon or /turnoff on a
\* device of the Registry raises, the response is the device-communication
\* error object with the id of that device.
C12_RaiseGivesCommError ==
    (/\ last.op \in {"status", "set", "turnon", "turnoff"}
     /\ WellFormed(last)
     /\ last.id \in DOMAIN deviceslist
     /\ last.raised)
    => IsCommError(last.message, last.id)

\* C13: a /delayoff request on a device of the Registry acknowledges without
\* opening a session or sending the command; when the timer fires the turn-off
\* is sent once on a session opened then and closed after the command.
C13_DelayOffDeferred ==
    /\ (last.op = "delayoff" /\ last.timer) =>
          (/\ "OK" \in DOMAIN last.message
           /\ last.opened = 0
           /\ ~last.sent)
    /\ last.op = "timer" =>
          (last.sent /\ last.opened = 1 /\ last.closed = 1)


\* The requests the gateway answers with message.
RequestOps == ControlOps \cup {"device", "sync", "cloudconfig", "numdevices", "offline",
                               "other"}

\* C14: the body of every response that is not a static asset is JSON, and the
\* body of a request that failed, as one for a path that matches no route and
\* no asset does, is a JSON object with an error field, never a bare string.
C14_ErrorsAreJsonObjects ==
    last.op \in RequestOps =>
        /\ "raw" \notin DOMAIN last.message
        /\ (last.op = "other" => "Error" \in DOMAIN last.message)

StoreIds(devs) == {devs[k].id : k \in 1..Len(devs)}

\* C17: the set of ids of the Registry never shrinks and grows only by the id
\* of the datagram a listener has just processed; an id that leaves
\* retrydevices unresolved (Expired) still has its entry, with empty name and
\* key; /numdevices reports the size of the Registry as found and the size of
\* the Credential Store as registered.
C17_RegistryOnlyGrows ==
    /\ [][DOMAIN deviceslist \subseteq DOMAIN deviceslist']_vars
    /\ [][(DOMAIN deviceslist' # DOMAIN deviceslist) =>
             (/\ last'.op = "listen"
              /\ DOMAIN deviceslist' = DOMAIN deviceslist \cup {last'.id})]_vars
    /\ [][\A d \in RealPending(retrydevices) :
             (d \notin DOMAIN retrydevices' /\ ~Resolves(tuyadevices', d)) =>
                (/\ d \in DOMAIN deviceslist'
                 /\ deviceslist'[d].name = ""
                 /\ deviceslist'[d].key = "")]_vars
    /\ [](last.op = "numdevices" =>
             last.message = [found |-> Cardinality(DOMAIN deviceslist),
                             registered |-> Len(tuyadevices)])

\* C17 witness: /numdevices counts two entries, one of an id whose attempts
\* expired, with nothing in the store.
C17_Witness ==
    /\ last.op = "numdevices"
    /\ last.message = [found |-> 2, registered |-> 0]
    /\ retrydevices = << >>
    /\ newdevices # << >>

\* C18: in every state /offline returns an object whose keys are exactly the
\* ids of the Credential Store that are no keys of the Registry.
C18_OfflineIsDifference ==
    /\ DOMAIN offlineDevices(tuyadevices, deviceslist)
          = StoreIds(tuyadevices) \ DOMAIN deviceslist
    /\ last.op = "offline" =>
          DOMAIN last.message = StoreIds(tuyadevices) \ DOMAIN deviceslist

\* C18 witness: after a discovery of d1, /offline lists d2 alone.
C18_Witness ==
    /\ last.op = "offline"
    /\ DOMAIN last.message = {"d2"}
    /\ "d1" \in DOMAIN deviceslist


\* The entry of a datagram that is no announcement: the observed address and
\* nothing else.
MinimalEntry(addr) == [ip |-> addr, name |-> "", mac |-> "", key |-> "", id |-> ""]

\* C16: after a listener has processed a datagram that cannot be parsed into
\* an announcement with an ip and a device id, the Registry holds under the
\* empty id the minimal entry with the address the datagram was observed from
\* (and the listener is at its next receive).
C16_GarbageDegrades ==
    (last.op = "listen" /\ ~last.parsed) =>
        (/\ "" \in DOMAIN deviceslist
         /\ deviceslist[""] = MinimalEntry(last.addr))


AsConfig(cfg) ==
    [apiKey |-> cfg[1], apiSecret |-> cfg[2], apiRegion |-> cfg[3], apiDeviceID |-> cfg[4]]

\* The values cloudconfig has before or after a /cloudconfig request.
WholeConfigs ==
    {EmptyConfig, FullConfig}
    \cup {AsConfig(cfg) : cfg \in {c \in CfgPaths \cup RaceCfgPaths : Len(c) = Len(Fields)}}

\* C15: the cloudconfig a call of tuyaCloudRefresh builds the Cloud Client from
\* is the value before or the value after a /cloudconfig request, never a
\* mixture of fields of both.
C15_ConfigSwappedWhole ==
    (BridgeCalled(last) /\ last.cloud # "unused") => last.config \in WholeConfigs


\* C19: once running is cleared no listener starts another receive, and under
\* fair scheduling every listener thread and the api thread leave their loops.
C19_WorkersTerminate ==
    /\ [][~running => \A p \in Ports : (lpc[p] # "recv" => lpc'[p] # "recv")]_vars
    /\ (~running) ~> (apc = "exit" /\ \A p \in Ports : lpc[p] = "exit")

\* C19 witness: after the interrupt all four workers have left their loops and
\* the stop request was answered.
C19_Witness ==
    /\ ~running
    /\ mpc = "done"
    /\ apc = "exit"
    /\ \A p \in Ports : lpc[p] = "exit"
    /\ "d1" \in DOMAIN deviceslist

\* A /sync or /cloudconfig was the last request or discovery, it stored the
\* list of the cloud, and this list resolves the discovered id d, whose
\* Registry entry has neither name nor key.
SyncedUnresolved(d) ==
    /\ last.op \in {"sync", "cloudconfig"}
    /\ "cloud" \in DOMAIN last
    /\ last.cloud = "devices"
    /\ d \in DOMAIN deviceslist
    /\ ~HasCredentials(deviceslist[d])
    /\ Resolves(tuyadevices, d)

\* C20: after a /sync or /cloudconfig that stored credentials for a discovered,
\* unresolved id, and with no further request or discovery, the resolver gets
\* to fill in the entry: as long as the entry is unresolved the resolver (or
\* the clock its gate waits for) has a step to take, also when the request
\* arrived in the middle of a pass.
C20_SyncedIdGetsResolved ==
    \A d \in GwIds : SyncedUnresolved(d) => ENABLED ResolverStep


\* A step that is an executed resolver pass: every pass changes retrydevices.
PassStep == last'.op = "pass" /\ retrydevices' # retrydevices

\* The ids of the Registry whose entry has neither name nor key.
Unresolved(devices) == {d \in DOMAIN devices : ~HasCredentials(devices[d])}

\* C21: a forced pass (the wildcard is in retrydevices) looks up every
\* discovered id that is still unresolved, whether it is still in retrydevices
\* or its budget expired earlier: when the store holds a name or a key for it,
\* the pass writes name, key and mac of the store into the entry and drops the
\* id from newdevices and retrydevices.
C21_ForcedPassResolvesAll ==
    [][(PassStep /\ WILDCARD \in DOMAIN retrydevices) =>
          \A d \in Unresolved(deviceslist) :
             Resolves(tuyadevices', d) =>
                (/\ deviceslist'[d] = Resolved(deviceslist[d], tuyadevices')
                 /\ HasCredentials(deviceslist'[d])
                 /\ ~InList(newdevices', d)
                 /\ d \notin DOMAIN retrydevices')]_vars

\* C21 witness: a forced pass has resolved d1, which was no longer in
\* retrydevices when the pass began.
C21_Witness ==
    /\ last.op = "pass" /\ last.forced
    /\ "d1" \in last.found
    /\ "d1" \notin DOMAIN last.pending
    /\ HasCredentials(deviceslist["d1"])
    /\ ~InList(newdevices, "d1")


\* C22: a pass that is not forced calls tuyaCloudRefresh exactly once, however
\* many ids are pending, and begins only when RETRYTIME seconds have passed
\* since the call of the previous such pass; while retrydevices is empty no
\* pass can run (and so the resolver calls nothing).
C22_NormalPassOncePerInterval ==
    /\ [][(PassStep /\ WILDCARD \notin DOMAIN retrydevices) =>
             (/\ last'.bridge = 1
              /\ since >= RETRYTIME
              /\ since' = 0
              /\ retrytimer' = RETRYTIME)]_vars
    /\ [](DOMAIN retrydevices = {} => ~ENABLED (\E ref \in PassRefresh : RetryPass(ref)))
    /\ [][DOMAIN retrydevices = {} => ~PassStep]_vars

\* C22 witness: a normal pass with two ids pending has just called
\* tuyaCloudRefresh once and stored the list it returned.
C22_Witness ==
    /\ last.op = "pass" /\ ~last.forced
    /\ Cardinality(DOMAIN last.pending) = 2
    /\ last.bridge = 1
    /\ since = 0
    /\ "devices" \in DOMAIN last.ret


\* C23: between whole listener steps and whole passes, every real id in
\* retrydevices is in newdevices and is a key of the Registry whose entry has
\* an empty name and an empty key; an entry that was inserted with a name or a
\* key, or got one, keeps one, so its id is never in retrydevices.
C23_PendingAreUnresolved ==
    /\ [](\A d \in RealPending(retrydevices) :
             /\ InList(newdevices, d)
             /\ d \in DOMAIN deviceslist
             /\ deviceslist[d].name = ""
             /\ deviceslist[d].key = "")
    /\ [][\A d \in DOMAIN deviceslist' :
             (d \notin DOMAIN deviceslist /\ HasCredentials(deviceslist'[d])) =>
                d \notin DOMAIN retrydevices']_vars
    /\ [][\A d \in DOMAIN deviceslist :
             HasCredentials(deviceslist[d]) => HasCredentials(deviceslist'[d])]_vars

\* C23 witness: after a pass two ids are pending, both tracked and without
\* name and key, the one discovered later with more budget left.
C23_Witness ==
    /\ RealPending(retrydevices) = {"", "d1"}
    /\ retrydevices["d1"] < retrydevices[""]
    /\ last.op = "pass"

\* C24: every pass, forced or not, takes exactly one from the budget of each
\* real id that its scan did not resolve and deletes the id when the budget
\* reaches zero, so that an id expires on the RETRYCOUNT-th pass since it
\* entered; an id the scan resolves leaves as resolved, also when its budget
\* was 1.
C24_BudgetCountsPasses ==
    /\ [][PassStep =>
             \A d \in RealPending(retrydevices) :
                IF Resolves(tuyadevices', d)
                THEN /\ d \notin DOMAIN retrydevices'
                     /\ HasCredentials(deviceslist'[d])
                     /\ ~InList(newdevices', d)
                ELSE IF retrydevices[d] > 1
                     THEN /\ d \in DOMAIN retrydevices'
                          /\ retrydevices'[d] = retrydevices[d] - 1
                     ELSE /\ d \notin DOMAIN retrydevices'
                          /\ passes[d] = RETRYCOUNT - 1
                          /\ ~HasCredentials(deviceslist'[d])
                          /\ InList(newdevices', d)]_vars
    /\ [][PassStep => RealPending(retrydevices') \subseteq RealPending(retrydevices)]_vars

\* C24 witness: a forced pass found the credentials of d1 when its budget was 1.
C24_Witness ==
    /\ last.op = "pass" /\ last.forced
    /\ "d1" \in last.found
    /\ "d1" \in DOMAIN last.pending
    /\ last.pending["d1"] = 1
    /\ HasCredentials(deviceslist["d1"])

\* C25: with listener steps taken whole, a real id enters retrydevices only in
\* the step that adds it to the Registry, with budget RETRYCOUNT; an id of the
\* Registry that is not in retrydevices never enters it again, and no step
\* raises the budget of an id that is in it.
C25_InsertedOnce ==
    /\ [][\A d \in RealPending(retrydevices') :
             d \notin DOMAIN retrydevices =>
                (/\ d \notin DOMAIN deviceslist
                 /\ last'.op = "listen" /\ last'.id = d
                 /\ retrydevices'[d] = RETRYCOUNT)]_vars
    /\ [][\A d \in RealPending(retrydevices) :
             d \in DOMAIN retrydevices' => retrydevices'[d] <= retrydevices[d]]_vars

\* C25 witness: d1 was announced again after its budget had expired (it is
\* still tracked as unresolved) and was not registered again.
C25_Witness ==
    /\ last.op = "listen" /\ last.id = "d1"
    /\ "d1" \in DOMAIN deviceslist
    /\ ~HasCredentials(deviceslist["d1"])
    /\ "d1" \notin DOMAIN retrydevices
    /\ InList(newdevices, "d1")


\* C26: while running is set the main thread stays in the retry loop, whatever
\* the listeners and the /sync and /cloudconfig requests insert into
\* retrydevices while the resolver iterates over it.
C26_ResolverNeverStops ==
    running => mpc # "dead"

====
